---- MODULE Spec2Model ----
(***************************************************************************)
(* The Beat: the entity matcher and the security registry of               *)
(* stock_matcher.py, the trading calendar resolver / collection window     *)
(* calculator of utils.py, the back-test driver of backtest.py and the     *)
(* Redis sender of redis_sender.py.                                        *)
(*                                                                         *)
(* Text and names are sequences of one-character strings; text positions   *)
(* are 0-based as in Python, so position p is element p + 1 of a sequence. *)
(***************************************************************************)
EXTENDS Integers, Sequences, FiniteSets, TLC

\* ------------------------------------------------------------ bounds
Alphabet == {"a", "b"}
MaxTextLen == 4
MaxNameLen == 2
MaxStocks == 2
MaxTickers == 2
MaxCalls == 3
NumCallers == 2
MaxSuffixLen == 5
MaxItems == 1
MaxBlasts == 4
MaxBatch == 2

VARIABLES
    \* extract_stock_names (stock_matcher.py)
    text,               \* argument text
    stock_list,         \* argument stock_list
    sorted_stocks,      \* local sorted_stocks
    k,                  \* position of the outer for loop in sorted_stocks (1-based)
    start_pos,          \* local start_pos of the inner while loop
    matched_stocks,     \* local matched_stocks
    matched_positions,  \* local matched_positions
    accepted,           \* history: the (entry, pos, end_pos) of every accepted occurrence
    unique_stocks,      \* the returned list
    xcall,              \* number of the extract_stock_names call (1, or 2: the same arguments again)
    first_result,       \* history: the list the first call returned
    xpc,                \* "idle" | "scan" | "done"
    \* get_data_collection_timerange and get_last_trading_day (utils.py)
    base_date,          \* argument base_date: the reference instant
    end_datetime,       \* local end_datetime (0 until it is set)
    sessions,           \* environment: the dates the session provider has data for
    search_date,        \* local search_date: the anchor of the first resolution
    safe_search_date,   \* local safe_search_date: the anchor of the second resolution
    call,               \* number of the get_last_trading_day call in progress (0: none yet)
    today,              \* get_last_trading_day: local today (its base_date)
    loop_i,             \* get_last_trading_day: the for loop's i
    check_date,         \* get_last_trading_day: check_date of the fallback loop
    result,             \* get_last_trading_day: the date returned (YYYYMMDD, a day number)
    path,               \* how the current call returned: "none" | "probe" | "fallback"
    last_trading_day,   \* local last_trading_day
    start_datetime,     \* local start_datetime
    warnings,           \* the calls that emitted a warning-level log record
    probed,             \* history: the dates probed by the current call, in order
    anyErr,             \* history: some probe of the current call raised
    anyOk,              \* history: some probe of the current call answered without error
    errRun,             \* history: some probe of the whole run raised
    raised,             \* an exception left the function
    wpc,                \* "idle" | "entry" | "probe" | "fallback" | "returned" | "done" | "raised"
    \* get_all_listed_stocks and get_stock_list_cached (stock_matcher.py)
    stock_list_cache,   \* global _stock_list_cache: <<>> is None, <<l>> is the list l
    all_stocks,         \* per caller: local all_stocks of its get_all_listed_stocks call
    rpc,                \* per caller: "off" | "idle" | "primary" | "secondary" | "store" | "return"
    got,                \* per caller: what its last call returned (<<>>: nothing yet)
    ncalls,             \* per caller: the get_stock_list_cached calls it has made
    loads,              \* history: the get_all_listed_stocks calls started
    tried,              \* history, per caller: the providers its load consulted and how each ended
    \* run_backtest (backtest.py)
    target_date_str,    \* argument target_date_str
    simulated_now,      \* local simulated_now: <<>> while unset, <<t>> once set
    has_keys,           \* environment: the four API keys are all set
    windows,            \* history: the get_data_collection_timerange calls made
    news_list,          \* len(news_list): <<>> while unset, <<n>> once collected
    disclosure_list,    \* len(disclosure_list): <<>> while unset, <<n>> once collected
    analyzed_results,   \* len(analyzed_results): <<>> while no analysis ran
    output_file,        \* the result file written: <<>> none, <<name>> its name
    errors,             \* the error records logged, in order
    bpc,                \* "off" | "entry" | "keys" | "dart" | "analyze" | "report" | "done"
    \* TheBeatSender (redis_sender.py)
    news,               \* Redis list 'thebeat:news', the head first
    sent_news_hashes,   \* Redis set 'thebeat:sent_news_hashes'
    ttl,                \* the time to live set on the hash set (0: none)
    ret,                \* what the last blast_news call returned: "none" | "True" | "False" | "raised"
    last,               \* history: the arguments of the last blast_news call and the list before it
    left,               \* blast_news_batch: the results still to process
    stats,              \* blast_news_batch: local stats
    blasts,             \* the results and items handed to the sender so far
    spc                 \* "off" | "idle" | "batch"

xvars == <<text, stock_list, sorted_stocks, k, start_pos, matched_stocks,
           matched_positions, accepted, unique_stocks, xcall, first_result, xpc>>

wvars == <<base_date, end_datetime, sessions, search_date, safe_search_date, call, today, loop_i,
           check_date, result, path, last_trading_day, start_datetime, warnings,
           probed, anyErr, anyOk, errRun, raised, wpc>>

rvars == <<stock_list_cache, all_stocks, rpc, got, ncalls, loads, tried>>

bvars == <<target_date_str, simulated_now, has_keys, windows, news_list, disclosure_list,
           analyzed_results, output_file, errors, bpc>>

svars == <<news, sent_news_hashes, ttl, ret, last, left, stats, blasts, spc>>

vars == <<xvars, wvars, rvars, bvars, svars>>

\* ------------------------------------------------------------ helpers
Min(S) == CHOOSE x \in S : \A y \in S : x <= y
Max(S) == CHOOSE x \in S : \A y \in S : x >= y

SeqsUpTo(S, n) == UNION {[1..m -> S] : m \in 0..n}

Names == SeqsUpTo(Alphabet, MaxNameLen) \ {<<>>}
Texts == SeqsUpTo(Alphabet, MaxTextLen)

\* A snapshot: entry i carries ticker i, so tickers are unique (data model).
Snapshot(names) == [i \in 1..Len(names) |-> [name |-> names[i], ticker |-> i]]
Snapshots == {Snapshot(ns) : ns \in SeqsUpTo(Names, MaxStocks)}

\* ------------------------------------------------------------ extract_stock_names

\* sorted(stock_list, key=len(name), reverse=True): a stable sort, so entries
\* of equal name length keep the order of stock_list.
RECURSIVE SortFrom(_, _)
SortFrom(list, n) ==
    IF n = 0 THEN <<>>
    ELSE LET HasLen(s) == Len(s.name) = n
         IN  SelectSeq(list, HasLen) \o SortFrom(list, n - 1)

SortedWrongOrder(list) == list

SortedStocks(list) ==
    IF list = <<>> THEN <<>>
    ELSE SortFrom(list, Max({Len(list[i].name) : i \in 1..Len(list)}))

\* whether name occurs in txt at 0-based position p
OccursAt(txt, name, p) ==
    /\ p >= 0
    /\ p + Len(name) <= Len(txt)
    /\ \A j \in 1..Len(name) : txt[p + j] = name[j]

FindZeroWhenMissing(txt, name, start) ==
    LET C == {p \in start..(Len(txt) - Len(name)) : OccursAt(txt, name, p)}
    IN  IF C = {} THEN (IF start = 0 THEN 0 ELSE -1) ELSE Min(C)

\* str.find(name, start): the lowest position >= start of an occurrence, or -1
Find(txt, name, start) ==
    LET C == {p \in start..(Len(txt) - Len(name)) : OccursAt(txt, name, p)}
    IN  IF C = {} THEN -1 ELSE Min(C)

PositionRangeWithoutStart(pos, end_pos) == (pos + 1)..(end_pos - 1)

\* set(range(pos, end_pos))
PositionRange(pos, end_pos) == pos..(end_pos - 1)

IntersectsAlways(position_range, covered) == TRUE

IntersectsStartOnly(position_range, covered) ==
    position_range # {} /\ Min(position_range) \in covered

\* position_range.intersection(matched_positions) is non-empty
Intersects(position_range, covered) == position_range \cap covered # {}

MatchedPositionsKept(previous) == previous

\* matched_positions = set(): a new empty set in every call, whatever the
\* previous call left
NewMatchedPositions(previous) == {}

\* the de-duplication loop: keep the first entry of each ticker, in order
RECURSIVE UniqueFrom(_, _)
UniqueFrom(list, seen) ==
    IF list = <<>> THEN <<>>
    ELSE IF Head(list).ticker \in seen
         THEN UniqueFrom(Tail(list), seen)
         ELSE <<Head(list)>> \o UniqueFrom(Tail(list), seen \cup {Head(list).ticker})

UniqueStocksKeepsAll(list) == list

UniqueStocks(list) == UniqueFrom(list, {})

CurName == sorted_stocks[k].name
CurPos == Find(text, CurName, start_pos)
CurEnd == CurPos + Len(CurName)

\* the calendar and window variables while only extract_stock_names runs
WindowIdle ==
    /\ base_date = 0
    /\ end_datetime = 0 /\ sessions = {} /\ search_date = 0 /\ safe_search_date = 0
    /\ call = 0 /\ today = 0 /\ loop_i = 0 /\ check_date = 0 /\ result = 0
    /\ path = "none" /\ last_trading_day = 0 /\ start_datetime = 0
    /\ warnings = {} /\ probed = <<>> /\ anyErr = FALSE /\ anyOk = FALSE
    /\ errRun = FALSE /\ raised = FALSE /\ wpc = "idle"

Callers == 1..NumCallers

\* the registry variables while the registry is not used
RegistryIdle ==
    /\ stock_list_cache = <<>>
    /\ all_stocks = [c \in Callers |-> <<>>]
    /\ rpc = [c \in Callers |-> "off"]
    /\ got = [c \in Callers |-> <<>>]
    /\ ncalls = [c \in Callers |-> 0]
    /\ loads = 0
    /\ tried = [c \in Callers |-> <<>>]

\* the matcher variables while extract_stock_names is not called
ExtractIdle ==
    /\ text = <<>> /\ stock_list = <<>> /\ sorted_stocks = <<>> /\ k = 1
    /\ start_pos = 0 /\ matched_stocks = <<>> /\ matched_positions = {}
    /\ accepted = <<>> /\ unique_stocks = <<>> /\ xcall = 1 /\ first_result = <<>>
    /\ xpc = "idle"

\* the back-test variables while run_backtest is not called
BacktestIdle ==
    /\ target_date_str = <<>> /\ simulated_now = <<>> /\ has_keys = FALSE
    /\ windows = 0 /\ news_list = <<>> /\ disclosure_list = <<>>
    /\ analyzed_results = <<>> /\ output_file = <<>> /\ errors = <<>> /\ bpc = "off"

\* the sender variables while no TheBeatSender exists
SenderIdle ==
    /\ news = <<>> /\ sent_news_hashes = {} /\ ttl = 0 /\ ret = "none"
    /\ last = <<>> /\ left = 0 /\ stats = <<>> /\ blasts = 0 /\ spc = "off"

InitExtract ==
    /\ text \in Texts
    /\ stock_list \in Snapshots
    /\ sorted_stocks = SortedStocks(stock_list)
    /\ k = 1
    /\ start_pos = 0
    /\ matched_stocks = <<>>
    /\ matched_positions = {}
    /\ accepted = <<>>
    /\ unique_stocks = <<>>
    /\ xcall = 1
    /\ first_result = <<>>
    /\ xpc = "scan"
    /\ WindowIdle
    /\ RegistryIdle
    /\ BacktestIdle
    /\ SenderIdle

\* an occurrence is found and its span is free: it is accepted
ScanAccept ==
    /\ xpc = "scan"
    /\ k <= Len(sorted_stocks)
    /\ CurPos # -1
    /\ ~Intersects(PositionRange(CurPos, CurEnd), matched_positions)
    /\ matched_stocks' = Append(matched_stocks, sorted_stocks[k])
    /\ matched_positions' = matched_positions \cup PositionRange(CurPos, CurEnd)
    /\ accepted' = Append(accepted, [entry |-> k, pos |-> CurPos, end |-> CurEnd])
    /\ start_pos' = CurPos + 1
    /\ UNCHANGED <<text, stock_list, sorted_stocks, k, unique_stocks, xcall,
                   first_result, xpc>>
    /\ UNCHANGED <<wvars, rvars, bvars, svars>>

\* an occurrence is found but its span meets a covered position: it is passed over
ScanReject ==
    /\ xpc = "scan"
    /\ k <= Len(sorted_stocks)
    /\ CurPos # -1
    /\ Intersects(PositionRange(CurPos, CurEnd), matched_positions)
    /\ start_pos' = CurPos + 1
    /\ UNCHANGED <<text, stock_list, sorted_stocks, k, matched_stocks,
                   matched_positions, accepted, unique_stocks, xcall, first_result, xpc>>
    /\ UNCHANGED <<wvars, rvars, bvars, svars>>

\* find returns -1: the while loop breaks and the for loop takes the next entry
ScanNextStock ==
    /\ xpc = "scan"
    /\ k <= Len(sorted_stocks)
    /\ CurPos = -1
    /\ k' = k + 1
    /\ start_pos' = 0
    /\ UNCHANGED <<text, stock_list, sorted_stocks, matched_stocks,
                   matched_positions, accepted, unique_stocks, xcall, first_result, xpc>>
    /\ UNCHANGED <<wvars, rvars, bvars, svars>>

\* the for loop is exhausted: de-duplicate by ticker and return
ExtractReturn ==
    /\ xpc = "scan"
    /\ k > Len(sorted_stocks)
    /\ unique_stocks' = UniqueStocks(matched_stocks)
    /\ xpc' = "done"
    /\ UNCHANGED <<text, stock_list, sorted_stocks, k, start_pos, matched_stocks,
                   matched_positions, accepted, xcall, first_result>>
    /\ UNCHANGED <<wvars, rvars, bvars, svars>>

\* the caller calls extract_stock_names(text, stock_list) a second time with
\* the same arguments: lines 107-110 give the call its own locals
ExtractAgain ==
    /\ xpc = "done"
    /\ xcall = 1
    /\ first_result' = unique_stocks
    /\ xcall' = 2
    /\ sorted_stocks' = SortedStocks(stock_list)
    /\ k' = 1
    /\ start_pos' = 0
    /\ matched_stocks' = <<>>
    /\ matched_positions' = NewMatchedPositions(matched_positions)
    /\ accepted' = <<>>
    /\ unique_stocks' = <<>>
    /\ xpc' = "scan"
    /\ UNCHANGED <<text, stock_list>>
    /\ UNCHANGED <<wvars, rvars, bvars, svars>>

NextExtract == ScanAccept \/ ScanReject \/ ScanNextStock \/ ExtractReturn \/ ExtractAgain

SpecExtract == InitExtract /\ [][NextExtract]_vars

\* ------------------------------------------------------------ dates and instants
\* An instant (a datetime) is a number of minutes; a date is a day number.
\* Day 0 is a Monday, so Weekday agrees with datetime.weekday() (0 = Monday).
MinutesPerDay == 24 * 60

Day(t) == t \div MinutesPerDay
TimeOfDay(t) == t % MinutesPerDay
Hour(t) == TimeOfDay(t) \div 60
Weekday(d) == d % 7

\* the reference instants: every day of a week, at 08:20, 09:00, 12:00, 16:00
\* and 16:30
RefDays == 14..20
RefTimes == {8 * 60 + 20, 9 * 60, 12 * 60, 16 * 60, 16 * 60 + 30}
RefInstants == {d * MinutesPerDay + t : d \in RefDays, t \in RefTimes}

\* ------------------------------------------------------------ get_last_trading_day
Lookback == 10
WeekendFrom == 5
OpenHour == 9
CloseHour == 16

\* the exceptions a probe of the provider raises
ProviderErrors == {"ConnectionError", "ValueError"}

HandlesValueErrorOnly(e) == e = "ValueError"

\* except Exception: every provider error is an Exception
Handles(e) == e \in ProviderErrors

CheckDateStays(base, n) == base

CheckDateForward(base, n) == base + n * MinutesPerDay

CheckDateSkipsBase(base, n) == base - (n + 1) * MinutesPerDay

\* check_date = today - timedelta(days=i)
CheckDate(base, n) == base - n * MinutesPerDay

\* strftime("%Y%m%d"): the date of an instant, its time of day dropped
DateStr(t) == Day(t)

\* datetime.strptime(s, "%Y%m%d"): midnight of the date
ParseDate(d) == d * MinutesPerDay

IsWeekendSundayOnly(t) == Weekday(Day(t)) >= WeekendFrom + 1

\* check_date.weekday() >= 5
IsWeekend(t) == Weekday(Day(t)) >= WeekendFrom

\* The dates the provider may have data for: any set of Monday-Friday dates
\* (the exchange holds no session on a Saturday or Sunday) around the
\* reference instant, the day after it included (a back-test looks at the past).
SessionCalendars(t) ==
    SUBSET {d \in (Day(t) - (Lookback + 1))..(Day(t) + 1) : Weekday(d) < WeekendFrom}

\* ------------------------------------------------------------ get_data_collection_timerange
EndDatetimeAtMidnight(b) == (b \div MinutesPerDay) * MinutesPerDay

\* end_datetime = base_date
EndDatetime(b) == b

AnchorBeforeOrAtOpen(t) == IF Hour(t) <= OpenHour THEN t - MinutesPerDay ELSE t

\* search_date: the day before when the reference hour is before 9
Anchor(t) == IF Hour(t) < OpenHour THEN t - MinutesPerDay ELSE t

AtCloseAtMidnight(t) == Day(t) * MinutesPerDay

\* replace(hour=16, minute=0, second=0, microsecond=0)
AtClose(t) == Day(t) * MinutesPerDay + CloseHour * 60

StartAfterEndNever(s, e) == FALSE

\* start_datetime > end_datetime
StartAfterEnd(s, e) == s > e

\* the trading day after line 124, from the date string of the first resolution
FirstTradingDay(r, e) ==
    IF ParseDate(r) > e THEN ParseDate(r) - MinutesPerDay ELSE ParseDate(r)

\* safe_search_date = start_datetime - timedelta(days=1), start_datetime having
\* been moved back one day on the line before
SafeSearchDate(s) == (s - MinutesPerDay) - MinutesPerDay

InitWindow ==
    /\ base_date \in RefInstants
    /\ end_datetime = 0
    /\ sessions \in SessionCalendars(base_date)
    /\ search_date = 0 /\ safe_search_date = 0
    /\ call = 0 /\ today = 0 /\ loop_i = 0 /\ check_date = 0 /\ result = 0
    /\ path = "none" /\ last_trading_day = 0 /\ start_datetime = 0
    /\ warnings = {} /\ probed = <<>> /\ anyErr = FALSE /\ anyOk = FALSE
    /\ errRun = FALSE /\ raised = FALSE
    /\ wpc = "entry"
    /\ ExtractIdle
    /\ RegistryIdle
    /\ BacktestIdle
    /\ SenderIdle

\* lines 104-119: set the anchor and call get_last_trading_day(search_date)
WindowEntry ==
    /\ wpc = "entry"
    /\ end_datetime' = EndDatetime(base_date)
    /\ search_date' = Anchor(EndDatetime(base_date))
    /\ call' = 1
    /\ today' = Anchor(EndDatetime(base_date))
    /\ loop_i' = 0
    /\ probed' = <<>> /\ anyErr' = FALSE /\ anyOk' = FALSE /\ path' = "none"
    /\ wpc' = "probe"
    /\ UNCHANGED <<base_date, sessions, safe_search_date, check_date, result,
                   last_trading_day, start_datetime, warnings, errRun, raised>>
    /\ UNCHANGED <<xvars, rvars, bvars, svars>>

\* lines 38-39: a Saturday or Sunday is skipped without a probe
SkipWeekend ==
    /\ wpc = "probe"
    /\ loop_i < Lookback
    /\ IsWeekend(CheckDate(today, loop_i))
    /\ loop_i' = loop_i + 1
    /\ UNCHANGED <<base_date, end_datetime, sessions, search_date, safe_search_date, call, today,
                   check_date, result, path, last_trading_day, start_datetime,
                   warnings, probed, anyErr, anyOk, errRun, raised, wpc>>
    /\ UNCHANGED <<xvars, rvars, bvars, svars>>

\* lines 50-56: the provider has data for the date: it is returned
ProbeSession ==
    /\ wpc = "probe"
    /\ loop_i < Lookback
    /\ ~IsWeekend(CheckDate(today, loop_i))
    /\ DateStr(CheckDate(today, loop_i)) \in sessions
    /\ result' = DateStr(CheckDate(today, loop_i))
    /\ path' = "probe"
    /\ probed' = Append(probed, DateStr(CheckDate(today, loop_i)))
    /\ anyOk' = TRUE
    /\ wpc' = "returned"
    /\ UNCHANGED <<base_date, end_datetime, sessions, search_date, safe_search_date, call, today, loop_i,
                   check_date, last_trading_day, start_datetime, warnings, anyErr,
                   errRun, raised>>
    /\ UNCHANGED <<xvars, rvars, bvars, svars>>

\* lines 50-54: the provider answers with no data: the loop goes on
ProbeEmpty ==
    /\ wpc = "probe"
    /\ loop_i < Lookback
    /\ ~IsWeekend(CheckDate(today, loop_i))
    /\ DateStr(CheckDate(today, loop_i)) \notin sessions
    /\ loop_i' = loop_i + 1
    /\ probed' = Append(probed, DateStr(CheckDate(today, loop_i)))
    /\ anyOk' = TRUE
    /\ UNCHANGED <<base_date, end_datetime, sessions, search_date, safe_search_date, call, today,
                   check_date, result, path, last_trading_day, start_datetime,
                   warnings, anyErr, errRun, raised, wpc>>
    /\ UNCHANGED <<xvars, rvars, bvars, svars>>

\* lines 50, 57-59: the provider raises; the except clause absorbs the error
\* and the loop goes on, or the error leaves the function
ProbeError ==
    /\ wpc = "probe"
    /\ loop_i < Lookback
    /\ ~IsWeekend(CheckDate(today, loop_i))
    /\ \E e \in ProviderErrors :
          IF Handles(e)
          THEN /\ loop_i' = loop_i + 1
               /\ probed' = Append(probed, DateStr(CheckDate(today, loop_i)))
               /\ anyErr' = TRUE
               /\ errRun' = TRUE
               /\ UNCHANGED <<raised, wpc>>
          ELSE /\ raised' = TRUE
               /\ wpc' = "raised"
               /\ UNCHANGED <<loop_i, probed, anyErr, errRun>>
    /\ UNCHANGED <<base_date, end_datetime, sessions, search_date, safe_search_date, call, today,
                   check_date, result, path, last_trading_day, start_datetime,
                   warnings, anyOk>>
    /\ UNCHANGED <<xvars, rvars, bvars, svars>>

\* lines 62-66: the for loop is exhausted: log a warning, start the fallback
BeginFallback ==
    /\ wpc = "probe"
    /\ loop_i >= Lookback
    /\ warnings' = warnings \cup {call}
    /\ check_date' = today
    /\ wpc' = "fallback"
    /\ UNCHANGED <<base_date, end_datetime, sessions, search_date, safe_search_date, call, today, loop_i,
                   result, path, last_trading_day, start_datetime, probed, anyErr,
                   anyOk, errRun, raised>>
    /\ UNCHANGED <<xvars, rvars, bvars, svars>>

\* lines 70-71: a weekend day: one day back
FallbackStepBack ==
    /\ wpc = "fallback"
    /\ IsWeekend(check_date)
    /\ check_date' = check_date - MinutesPerDay
    /\ UNCHANGED <<base_date, end_datetime, sessions, search_date, safe_search_date, call, today, loop_i,
                   result, path, last_trading_day, start_datetime, warnings, probed,
                   anyErr, anyOk, errRun, raised, wpc>>
    /\ UNCHANGED <<xvars, rvars, bvars, svars>>

\* line 86: the first Monday-Friday date is returned
FallbackReturn ==
    /\ wpc = "fallback"
    /\ ~IsWeekend(check_date)
    /\ result' = DateStr(check_date)
    /\ path' = "fallback"
    /\ wpc' = "returned"
    /\ UNCHANGED <<base_date, end_datetime, sessions, search_date, safe_search_date, call, today, loop_i,
                   check_date, last_trading_day, start_datetime, warnings, probed,
                   anyErr, anyOk, errRun, raised>>
    /\ UNCHANGED <<xvars, rvars, bvars, svars>>

\* lines 120-131, 141-144: the first resolution gives start <= end: return
WindowReturnFirst ==
    /\ wpc = "returned"
    /\ call = 1
    /\ ~StartAfterEnd(AtClose(FirstTradingDay(result, end_datetime)), end_datetime)
    /\ last_trading_day' = FirstTradingDay(result, end_datetime)
    /\ start_datetime' = AtClose(FirstTradingDay(result, end_datetime))
    /\ wpc' = "done"
    /\ UNCHANGED <<base_date, end_datetime, sessions, search_date, safe_search_date, call, today, loop_i,
                   check_date, result, path, warnings, probed, anyErr, anyOk, errRun,
                   raised>>
    /\ UNCHANGED <<xvars, rvars, bvars, svars>>

\* lines 120-137: the first resolution gives start > end: start goes back
\* one day and get_last_trading_day(safe_search_date) is called
WindowResolveAgain ==
    /\ wpc = "returned"
    /\ call = 1
    /\ StartAfterEnd(AtClose(FirstTradingDay(result, end_datetime)), end_datetime)
    /\ last_trading_day' = FirstTradingDay(result, end_datetime)
    /\ start_datetime' = AtClose(FirstTradingDay(result, end_datetime)) - MinutesPerDay
    /\ safe_search_date' = SafeSearchDate(AtClose(FirstTradingDay(result, end_datetime)))
    /\ call' = 2
    /\ today' = SafeSearchDate(AtClose(FirstTradingDay(result, end_datetime)))
    /\ loop_i' = 0
    /\ probed' = <<>> /\ anyErr' = FALSE /\ anyOk' = FALSE /\ path' = "none"
    /\ wpc' = "probe"
    /\ UNCHANGED <<base_date, end_datetime, sessions, search_date, check_date, result, warnings,
                   errRun, raised>>
    /\ UNCHANGED <<xvars, rvars, bvars, svars>>

\* lines 138-144: the second resolution returned: start is its 16:00; return
WindowReturnSecond ==
    /\ wpc = "returned"
    /\ call = 2
    /\ last_trading_day' = ParseDate(result)
    /\ start_datetime' = AtClose(ParseDate(result))
    /\ wpc' = "done"
    /\ UNCHANGED <<base_date, end_datetime, sessions, search_date, safe_search_date, call, today, loop_i,
                   check_date, result, path, warnings, probed, anyErr, anyOk, errRun,
                   raised>>
    /\ UNCHANGED <<xvars, rvars, bvars, svars>>

NextWindow ==
    \/ WindowEntry
    \/ SkipWeekend
    \/ ProbeSession
    \/ ProbeEmpty
    \/ ProbeError
    \/ BeginFallback
    \/ FallbackStepBack
    \/ FallbackReturn
    \/ WindowReturnFirst
    \/ WindowResolveAgain
    \/ WindowReturnSecond

SpecWindow == InitWindow /\ [][NextWindow]_vars

\* the calls are sequential and every step that is enabled is eventually taken
FairSpecWindow == SpecWindow /\ WF_vars(NextWindow)

\* ------------------------------------------------------------ get_all_listed_stocks
Tickers == 1..MaxTickers

\* What a provider lists: rows with distinct tickers.  The name of a security
\* plays no part in the registry and is identified with its ticker.
Distinct(seq) == \A m, n \in 1..Len(seq) : m # n => seq[m] # seq[n]
TickerLists == {l \in SeqsUpTo(Tickers, MaxTickers) : Distinct(l)}

\* FinanceDataReader's StockListing('KRX'): rows (Code, Market)
PrimaryListings ==
    UNION {{[n \in 1..Len(l) |-> [ticker |-> l[n], market |-> mk[n]]] :
               mk \in [1..Len(l) -> {"KOSPI", "KOSDAQ", "KONEX"}]} : l \in TickerLists}

\* pykrx: the KOSPI and the KOSDAQ ticker lists, no ticker in both
SecondaryListings ==
    {kq \in TickerLists \X TickerLists : Distinct(kq[1] \o kq[2])}

Entry(t, mk) == [name |-> t, ticker |-> t, market |-> mk]

\* lines 33-42: the rows of KOSPI and KOSDAQ become entries, the others are dropped
RECURSIVE PrimaryEntries(_)
PrimaryEntries(rows) ==
    IF rows = <<>> THEN <<>>
    ELSE IF Head(rows).market \in {"KOSPI", "KOSDAQ"}
         THEN <<Entry(Head(rows).ticker, Head(rows).market)>> \o PrimaryEntries(Tail(rows))
         ELSE PrimaryEntries(Tail(rows))

\* lines 70-76: the KOSPI tickers, then the KOSDAQ tickers
SecondaryEntries(kq) ==
    [n \in 1..Len(kq[1]) |-> Entry(kq[1][n], "KOSPI")]
       \o [n \in 1..Len(kq[2]) |-> Entry(kq[2][n], "KOSDAQ")]

\* line 69: kospi_tickers and kosdaq_tickers
BothMarkets(kq) == kq[1] # <<>> /\ kq[2] # <<>>

CacheMissingOrEmpty(cache) == cache = <<>> \/ cache = << <<>> >>

CacheMissingAlways(cache) == TRUE

\* line 161: _stock_list_cache is None
CacheMissing(cache) == cache = <<>>

InitRegistry ==
    /\ stock_list_cache = <<>>
    /\ all_stocks = [c \in Callers |-> <<>>]
    /\ rpc = [c \in Callers |-> "idle"]
    /\ got = [c \in Callers |-> <<>>]
    /\ ncalls = [c \in Callers |-> 0]
    /\ loads = 0
    /\ tried = [c \in Callers |-> <<>>]
    /\ ExtractIdle
    /\ WindowIdle
    /\ BacktestIdle
    /\ SenderIdle

\* lines 159-163: the cache is None: get_all_listed_stocks is called
CachedMiss(c) ==
    /\ rpc[c] = "idle"
    /\ ncalls[c] < MaxCalls
    /\ CacheMissing(stock_list_cache)
    /\ ncalls' = [ncalls EXCEPT ![c] = @ + 1]
    /\ loads' = loads + 1
    /\ all_stocks' = [all_stocks EXCEPT ![c] = <<>>]
    /\ tried' = [tried EXCEPT ![c] = <<>>]
    /\ rpc' = [rpc EXCEPT ![c] = "primary"]
    /\ UNCHANGED <<stock_list_cache, got>>
    /\ UNCHANGED <<xvars, wvars, bvars, svars>>

\* lines 159-161: the cache holds a list: no load
CachedHit(c) ==
    /\ rpc[c] = "idle"
    /\ ncalls[c] < MaxCalls
    /\ ~CacheMissing(stock_list_cache)
    /\ ncalls' = [ncalls EXCEPT ![c] = @ + 1]
    /\ rpc' = [rpc EXCEPT ![c] = "return"]
    /\ UNCHANGED <<stock_list_cache, all_stocks, got, loads, tried>>
    /\ UNCHANGED <<xvars, wvars, bvars, svars>>

\* lines 25-46: the primary provider answers and some row is of KOSPI or
\* KOSDAQ: all_stocks is returned
PrimaryOk(c) ==
    /\ rpc[c] = "primary"
    /\ \E rows \in PrimaryListings :
          /\ PrimaryEntries(rows) # <<>>
          /\ all_stocks' = [all_stocks EXCEPT ![c] = PrimaryEntries(rows)]
    /\ tried' = [tried EXCEPT ![c] = Append(@, <<"primary", "ok">>)]
    /\ rpc' = [rpc EXCEPT ![c] = "store"]
    /\ UNCHANGED <<stock_list_cache, got, ncalls, loads>>
    /\ UNCHANGED <<xvars, wvars, bvars, svars>>

\* lines 25-44: the primary provider answers without an entry of KOSPI or KOSDAQ
PrimaryEmpty(c) ==
    /\ rpc[c] = "primary"
    /\ \E rows \in PrimaryListings : PrimaryEntries(rows) = <<>>
    /\ tried' = [tried EXCEPT ![c] = Append(@, <<"primary", "empty">>)]
    /\ rpc' = [rpc EXCEPT ![c] = "secondary"]
    /\ UNCHANGED <<stock_list_cache, all_stocks, got, ncalls, loads>>
    /\ UNCHANGED <<xvars, wvars, bvars, svars>>

\* lines 25-52: the primary provider raises, at the import or the listing
\* (done = 0) or while row done + 1 is read; the entries appended so far stay
\* in all_stocks
PrimaryRaises(c) ==
    /\ rpc[c] = "primary"
    /\ \E rows \in PrimaryListings :
          \E done \in 0..Len(rows) :
             /\ done < Len(rows) \/ rows = <<>>
             /\ all_stocks' = [all_stocks EXCEPT ![c] = PrimaryEntries(SubSeq(rows, 1, done))]
    /\ tried' = [tried EXCEPT ![c] = Append(@, <<"primary", "raised">>)]
    /\ rpc' = [rpc EXCEPT ![c] = "secondary"]
    /\ UNCHANGED <<stock_list_cache, got, ncalls, loads>>
    /\ UNCHANGED <<xvars, wvars, bvars, svars>>

\* lines 55-79: the secondary provider lists both markets and names every
\* ticker: its entries are appended to all_stocks, which is returned
SecondaryOk(c) ==
    /\ rpc[c] = "secondary"
    /\ \E kq \in SecondaryListings :
          /\ BothMarkets(kq)
          /\ all_stocks' = [all_stocks EXCEPT ![c] = @ \o SecondaryEntries(kq)]
    /\ tried' = [tried EXCEPT ![c] = Append(@, <<"secondary", "ok">>)]
    /\ rpc' = [rpc EXCEPT ![c] = "store"]
    /\ UNCHANGED <<stock_list_cache, got, ncalls, loads>>
    /\ UNCHANGED <<xvars, wvars, bvars, svars>>

\* lines 55-69, 84: a ticker list of the secondary provider is empty
SecondaryEmpty(c) ==
    /\ rpc[c] = "secondary"
    /\ \E kq \in SecondaryListings : ~BothMarkets(kq)
    /\ tried' = [tried EXCEPT ![c] = Append(@, <<"secondary", "empty">>)]
    /\ rpc' = [rpc EXCEPT ![c] = "store"]
    /\ UNCHANGED <<stock_list_cache, all_stocks, got, ncalls, loads>>
    /\ UNCHANGED <<xvars, wvars, bvars, svars>>

\* lines 55-84: the secondary provider raises, at a ticker list (done = 0) or
\* at the name of ticker done + 1; the entries appended so far stay in
\* all_stocks, which is returned
SecondaryRaises(c) ==
    /\ rpc[c] = "secondary"
    /\ \E kq \in SecondaryListings :
          \E done \in 0..Len(SecondaryEntries(kq)) :
             /\ done < Len(SecondaryEntries(kq)) \/ kq = <<<<>>, <<>>>>
             /\ done > 0 => BothMarkets(kq)
             /\ all_stocks' =
                   [all_stocks EXCEPT ![c] = @ \o SubSeq(SecondaryEntries(kq), 1, done)]
    /\ tried' = [tried EXCEPT ![c] = Append(@, <<"secondary", "raised">>)]
    /\ rpc' = [rpc EXCEPT ![c] = "store"]
    /\ UNCHANGED <<stock_list_cache, got, ncalls, loads>>
    /\ UNCHANGED <<xvars, wvars, bvars, svars>>

\* line 163: _stock_list_cache = (what get_all_listed_stocks returned)
CachedStore(c) ==
    /\ rpc[c] = "store"
    /\ stock_list_cache' = <<all_stocks[c]>>
    /\ rpc' = [rpc EXCEPT ![c] = "return"]
    /\ UNCHANGED <<all_stocks, got, ncalls, loads, tried>>
    /\ UNCHANGED <<xvars, wvars, bvars, svars>>

\* line 165: return _stock_list_cache
CachedReturn(c) ==
    /\ rpc[c] = "return"
    /\ got' = [got EXCEPT ![c] = stock_list_cache]
    /\ rpc' = [rpc EXCEPT ![c] = "idle"]
    /\ UNCHANGED <<stock_list_cache, all_stocks, ncalls, loads, tried>>
    /\ UNCHANGED <<xvars, wvars, bvars, svars>>

RegistryStep(c) ==
    \/ CachedMiss(c)
    \/ CachedHit(c)
    \/ PrimaryOk(c)
    \/ PrimaryEmpty(c)
    \/ PrimaryRaises(c)
    \/ SecondaryOk(c)
    \/ SecondaryEmpty(c)
    \/ SecondaryRaises(c)
    \/ CachedStore(c)
    \/ CachedReturn(c)

\* no other caller is inside get_stock_list_cached
Alone(c) == \A o \in Callers \ {c} : rpc[o] = "idle"

\* the callers of the program (the collectors' constructors) call one after
\* the other
NextRegistry ==
    \E c \in Callers :
       \/ Alone(c) /\ CachedMiss(c)
       \/ Alone(c) /\ CachedHit(c)
       \/ Alone(c) /\ PrimaryOk(c)
       \/ Alone(c) /\ PrimaryEmpty(c)
       \/ Alone(c) /\ PrimaryRaises(c)
       \/ Alone(c) /\ SecondaryOk(c)
       \/ Alone(c) /\ SecondaryEmpty(c)
       \/ Alone(c) /\ SecondaryRaises(c)
       \/ Alone(c) /\ CachedStore(c)
       \/ Alone(c) /\ CachedReturn(c)

SpecRegistry == InitRegistry /\ [][NextRegistry]_vars

\* callers on threads of their own: their steps interleave
NextRegistryThreads == \E c \in Callers : RegistryStep(c)

SpecRegistryThreads == InitRegistry /\ [][NextRegistryThreads]_vars

\* ------------------------------------------------------------ run_backtest

\* The strings handed to run_backtest: a year followed by up to MaxSuffixLen
\* characters, and the beginnings of a year.
RefYear == <<"2", "0", "2", "6">>
DateChars == {"0", "1", "2", "3", " ", "-"}
TargetDateStrings ==
    {RefYear \o x : x \in SeqsUpTo(DateChars, MaxSuffixLen)}
       \cup {SubSeq(RefYear, 1, n) : n \in 0..3}

Digits == {"0", "1", "2", "3", "4", "5", "6", "7", "8", "9"}
NonZeroDigits == Digits \ {"0"}

DigitValue(c) ==
    LET ds == <<"0", "1", "2", "3", "4", "5", "6", "7", "8", "9">>
    IN  (CHOOSE n \in 1..10 : ds[n] = c) - 1

\* character p of s (1-based), "" past the end
At(s, p) == IF p \in 1..Len(s) THEN s[p] ELSE ""

\* int(): the decimal value of the digits of q, surrounding blanks dropped
RECURSIVE IntOf(_)
IntOf(q) ==
    IF q = <<>> THEN 0
    ELSE IF q[Len(q)] \in Digits
         THEN IntOf(SubSeq(q, 1, Len(q) - 1)) * 10 + DigitValue(q[Len(q)])
         ELSE IntOf(SubSeq(q, 1, Len(q) - 1))

\* %m is 1[0-2]|0[1-9]|[1-9]: the lengths of the alternatives that match at
\* p, in the order the regular expression tries them
MonthLengths(s, p) ==
    (IF At(s, p) = "1" /\ At(s, p + 1) \in {"0", "1", "2"} THEN <<2>> ELSE <<>>)
       \o (IF At(s, p) = "0" /\ At(s, p + 1) \in NonZeroDigits THEN <<2>> ELSE <<>>)
       \o (IF At(s, p) \in NonZeroDigits THEN <<1>> ELSE <<>>)

\* %d is 3[0-1]|[1-2]\d|0[1-9]|[1-9]| [1-9]
DayLengths(s, p) ==
    (IF At(s, p) = "3" /\ At(s, p + 1) \in {"0", "1"} THEN <<2>> ELSE <<>>)
       \o (IF At(s, p) \in {"1", "2"} /\ At(s, p + 1) \in Digits THEN <<2>> ELSE <<>>)
       \o (IF At(s, p) = "0" /\ At(s, p + 1) \in NonZeroDigits THEN <<2>> ELSE <<>>)
       \o (IF At(s, p) \in NonZeroDigits THEN <<1>> ELSE <<>>)
       \o (IF At(s, p) = " " /\ At(s, p + 1) \in NonZeroDigits THEN <<2>> ELSE <<>>)

\* the match of the format's regular expression \d\d\d\d %m %d at the start of
\* s: the first month alternative after which a day alternative matches, and
\* the first day alternative there; <<>> when there is none
FormatMatch(s) ==
    IF \E p \in 1..4 : At(s, p) \notin Digits THEN <<>>
    ELSE LET ms == SelectSeq(MonthLengths(s, 5), LAMBDA ml : DayLengths(s, 5 + ml) # <<>>)
         IN  IF ms = <<>> THEN <<>>
             ELSE LET ml == ms[1]
                      dl == DayLengths(s, 5 + ml)[1]
                  IN  <<[year  |-> IntOf(SubSeq(s, 1, 4)),
                         month |-> IntOf(SubSeq(s, 5, 4 + ml)),
                         day   |-> IntOf(SubSeq(s, 5 + ml, 4 + ml + dl)),
                         end   |-> 4 + ml + dl]>>

IsLeap(y) == (y % 4 = 0 /\ y % 100 # 0) \/ y % 400 = 0

DaysInMonth(y, m) ==
    IF m = 2 THEN (IF IsLeap(y) THEN 29 ELSE 28)
    ELSE IF m \in {4, 6, 9, 11} THEN 30 ELSE 31

\* datetime.strptime(s, "%Y%m%d"): <<>> when it raises ValueError (no match,
\* unconverted data remains, or no such date), <<t>> when it returns t
Strptime(s) ==
    LET f == FormatMatch(s)
    IN  IF f = <<>> THEN <<>>
        ELSE IF f[1].end # Len(s) THEN <<>>
        ELSE IF f[1].year < 1 \/ f[1].day > DaysInMonth(f[1].year, f[1].month) THEN <<>>
        ELSE <<[year |-> f[1].year, month |-> f[1].month, day |-> f[1].day,
                hour |-> 0, minute |-> 0]>>

\* target_date.replace(hour=8, minute=20, second=0, microsecond=0)
SimulatedNow(t) == [t EXCEPT !.hour = 8, !.minute = 20]

\* f"backtest_result_{target_date_str}.json"
OutputFilename(s) == <<"backtest_result_">> \o s \o <<".json">>

\* what the except clauses of lines 107-110 log for an exception
Logged(e) == IF e = "ValueError" THEN "date_format" ELSE "backtest_error"

InitBacktest ==
    /\ target_date_str \in TargetDateStrings
    /\ has_keys \in BOOLEAN
    /\ simulated_now = <<>>
    /\ windows = 0
    /\ news_list = <<>>
    /\ disclosure_list = <<>>
    /\ analyzed_results = <<>>
    /\ output_file = <<>>
    /\ errors = <<>>
    /\ bpc = "entry"
    /\ ExtractIdle
    /\ WindowIdle
    /\ RegistryIdle
    /\ SenderIdle

\* lines 33-37: strptime returns; simulated_now is 08:20 of the date
BacktestParsed ==
    /\ bpc = "entry"
    /\ Strptime(target_date_str) # <<>>
    /\ simulated_now' = <<SimulatedNow(Strptime(target_date_str)[1])>>
    /\ bpc' = "keys"
    /\ UNCHANGED <<target_date_str, has_keys, windows, news_list, disclosure_list,
                   analyzed_results, output_file, errors>>
    /\ UNCHANGED <<xvars, wvars, rvars, svars>>

\* lines 33, 107-108: strptime raises ValueError; the error is logged
BacktestRejected ==
    /\ bpc = "entry"
    /\ Strptime(target_date_str) = <<>>
    /\ errors' = Append(errors, Logged("ValueError"))
    /\ bpc' = "done"
    /\ UNCHANGED <<target_date_str, simulated_now, has_keys, windows, news_list,
                   disclosure_list, analyzed_results, output_file>>
    /\ UNCHANGED <<xvars, wvars, rvars, svars>>

\* lines 52-54: an API key is missing
BacktestKeysMissing ==
    /\ bpc = "keys"
    /\ ~has_keys
    /\ errors' = Append(errors, "missing_keys")
    /\ bpc' = "done"
    /\ UNCHANGED <<target_date_str, simulated_now, has_keys, windows, news_list,
                   disclosure_list, analyzed_results, output_file>>
    /\ UNCHANGED <<xvars, wvars, rvars, svars>>

\* lines 60-61: collect_news(base_date=simulated_now) computes the collection
\* window and returns the news found
BacktestCollectNews ==
    /\ bpc = "keys"
    /\ has_keys
    /\ windows' = windows + 1
    /\ \E n \in 0..MaxItems : news_list' = <<n>>
    /\ bpc' = "dart"
    /\ UNCHANGED <<target_date_str, simulated_now, has_keys, disclosure_list,
                   analyzed_results, output_file, errors>>
    /\ UNCHANGED <<xvars, wvars, rvars, svars>>

\* lines 64-65: collect_disclosures(base_date=simulated_now) computes the
\* collection window and returns the filings found
BacktestCollectDisclosures ==
    /\ bpc = "dart"
    /\ windows' = windows + 1
    /\ \E n \in 0..MaxItems : disclosure_list' = <<n>>
    /\ bpc' = "analyze"
    /\ UNCHANGED <<target_date_str, simulated_now, has_keys, news_list,
                   analyzed_results, output_file, errors>>
    /\ UNCHANGED <<xvars, wvars, rvars, svars>>

\* lines 67, 74, 88-90: nothing was collected
BacktestNoItems ==
    /\ bpc = "analyze"
    /\ news_list[1] + disclosure_list[1] = 0
    /\ bpc' = "done"
    /\ UNCHANGED <<target_date_str, simulated_now, has_keys, windows, news_list,
                   disclosure_list, analyzed_results, output_file, errors>>
    /\ UNCHANGED <<xvars, wvars, rvars, svars>>

\* lines 74-87: the analyzer grades the items (it returns no result when the
\* model call fails)
BacktestAnalyze ==
    /\ bpc = "analyze"
    /\ news_list[1] + disclosure_list[1] > 0
    /\ \E n \in 0..(news_list[1] + disclosure_list[1]) : analyzed_results' = <<n>>
    /\ bpc' = "report"
    /\ UNCHANGED <<target_date_str, simulated_now, has_keys, windows, news_list,
                   disclosure_list, output_file, errors>>
    /\ UNCHANGED <<xvars, wvars, rvars, svars>>

\* lines 93-105: the report is printed and the result file written
BacktestReport ==
    /\ bpc = "report"
    /\ output_file' = <<OutputFilename(target_date_str)>>
    /\ bpc' = "done"
    /\ UNCHANGED <<target_date_str, simulated_now, has_keys, windows, news_list,
                   disclosure_list, analyzed_results, errors>>
    /\ UNCHANGED <<xvars, wvars, rvars, svars>>

\* lines 107-110: a collector, the analyzer or the report raises; a collector
\* may have computed its window before
BacktestRaises ==
    /\ \/ bpc = "keys" /\ has_keys
       \/ bpc \in {"dart", "analyze", "report"}
    /\ \E e \in {"ValueError", "OSError"} : errors' = Append(errors, Logged(e))
    /\ \E w \in {windows, windows + 1} :
          /\ w # windows => bpc \in {"keys", "dart"}
          /\ windows' = w
    /\ bpc' = "done"
    /\ UNCHANGED <<target_date_str, simulated_now, has_keys, news_list,
                   disclosure_list, analyzed_results, output_file>>
    /\ UNCHANGED <<xvars, wvars, rvars, svars>>

NextBacktest ==
    \/ BacktestParsed
    \/ BacktestRejected
    \/ BacktestKeysMissing
    \/ BacktestCollectNews
    \/ BacktestCollectDisclosures
    \/ BacktestNoItems
    \/ BacktestAnalyze
    \/ BacktestReport
    \/ BacktestRaises

SpecBacktest == InitBacktest /\ [][NextBacktest]_vars

\* ------------------------------------------------------------ TheBeatSender
Titles == {"t1", "t2"}
Grades == {"S", "A", "B", "C"}

\* the Redis command of a call that fails first ("none": every command succeeds)
Failures == {"none", "sismember", "lpush", "sadd", "expire"}

\* ttl_days * 24 * 60 * 60 with ttl_days = 7
TtlSeconds == 7 * 24 * 60 * 60

\* _generate_hash: the SHA-256 digest of the title, one digest per title
GenerateHash(title) == <<"sha256", title>>

\* _is_duplicate: sismember('thebeat:sent_news_hashes', news_hash)
IsDuplicate(hashes, news_hash) == news_hash \in hashes

\* grade not in ['S', 'A']
GradeFiltered(grade) == grade \notin {"S", "A"}

\* news_data as pushed (the stock, the link and the timestamp play no part)
NewsData(title, grade) == [title |-> title, grade |-> grade]

\* blast_news(title, grade) on the list l, the hash set h and the time to
\* live t, when the Redis command fail fails: the list, the set and the time
\* to live afterwards and what the call returns ("raised": the exception of
\* _is_duplicate leaves the call)
BlastNews(l, h, t, title, grade, fail) ==
    IF GradeFiltered(grade)
    THEN [news |-> l, hashes |-> h, ttl |-> t, ret |-> "False"]
    ELSE IF fail = "sismember"
    THEN [news |-> l, hashes |-> h, ttl |-> t, ret |-> "raised"]
    ELSE IF IsDuplicate(h, GenerateHash(title))
    THEN [news |-> l, hashes |-> h, ttl |-> t, ret |-> "False"]
    ELSE IF fail = "lpush"
    THEN [news |-> l, hashes |-> h, ttl |-> t, ret |-> "False"]
    ELSE IF fail = "sadd"
    THEN [news |-> <<NewsData(title, grade)>> \o l, hashes |-> h, ttl |-> t, ret |-> "False"]
    ELSE IF fail = "expire"
    THEN [news |-> <<NewsData(title, grade)>> \o l,
          hashes |-> h \cup {GenerateHash(title)}, ttl |-> t, ret |-> "False"]
    ELSE [news |-> <<NewsData(title, grade)>> \o l,
          hashes |-> h \cup {GenerateHash(title)}, ttl |-> TtlSeconds, ret |-> "True"]

\* stats = {"sent": 0, "filtered": 0, "duplicated": 0}
NoStats == [sent |-> 0, filtered |-> 0, duplicated |-> 0]

InitSender ==
    /\ news = <<>>
    /\ sent_news_hashes = {}
    /\ ttl = 0
    /\ ret = "none"
    /\ last = <<>>
    /\ left = 0
    /\ stats = <<>>
    /\ blasts = 0
    /\ spc = "idle"
    /\ ExtractIdle
    /\ WindowIdle
    /\ RegistryIdle
    /\ BacktestIdle

\* lines 91-136: a caller calls blast_news(title, grade)
SenderBlastNews ==
    /\ spc = "idle"
    /\ blasts < MaxBlasts
    /\ \E title \in Titles \cup {""}, grade \in Grades, fail \in Failures :
          LET r == BlastNews(news, sent_news_hashes, ttl, title, grade, fail)
          IN  /\ news' = r.news
              /\ sent_news_hashes' = r.hashes
              /\ ttl' = r.ttl
              /\ ret' = r.ret
              /\ last' = <<[title |-> title, grade |-> grade, before |-> news]>>
    /\ blasts' = blasts + 1
    /\ UNCHANGED <<left, stats, spc>>
    /\ UNCHANGED <<xvars, wvars, rvars, bvars>>

\* lines 138-150: blast_news_batch(analysis_results) is called with a list of
\* n results
BatchStart ==
    /\ spc = "idle"
    /\ \E n \in 0..MaxBatch :
          /\ blasts + n <= MaxBlasts
          /\ left' = n
    /\ stats' = <<NoStats>>
    /\ spc' = "batch"
    /\ UNCHANGED <<news, sent_news_hashes, ttl, ret, last, blasts>>
    /\ UNCHANGED <<xvars, wvars, rvars, bvars>>

\* lines 151-160: the next result has no title
BatchSkipEmpty ==
    /\ spc = "batch"
    /\ left > 0
    /\ stats' = <<[stats[1] EXCEPT !.filtered = @ + 1]>>
    /\ left' = left - 1
    /\ blasts' = blasts + 1
    /\ UNCHANGED <<news, sent_news_hashes, ttl, ret, last, spc>>
    /\ UNCHANGED <<xvars, wvars, rvars, bvars>>

\* lines 151-165: the next result has a grade other than S and A
BatchFiltered ==
    /\ spc = "batch"
    /\ left > 0
    /\ \E title \in Titles, grade \in Grades : GradeFiltered(grade)
    /\ stats' = <<[stats[1] EXCEPT !.filtered = @ + 1]>>
    /\ left' = left - 1
    /\ blasts' = blasts + 1
    /\ UNCHANGED <<news, sent_news_hashes, ttl, ret, last, spc>>
    /\ UNCHANGED <<xvars, wvars, rvars, bvars>>

\* lines 168-169: the duplicate check of the batch raises; the exception
\* leaves blast_news_batch
BatchCheckRaises ==
    /\ spc = "batch"
    /\ left > 0
    /\ \E title \in Titles, grade \in Grades : ~GradeFiltered(grade)
    /\ stats' = <<>>
    /\ left' = 0
    /\ blasts' = blasts + 1
    /\ spc' = "idle"
    /\ UNCHANGED <<news, sent_news_hashes, ttl, ret, last>>
    /\ UNCHANGED <<xvars, wvars, rvars, bvars>>

\* lines 168-171: the title of the next result is in the hash set
BatchDuplicate ==
    /\ spc = "batch"
    /\ left > 0
    /\ \E title \in Titles, grade \in Grades :
          /\ ~GradeFiltered(grade)
          /\ IsDuplicate(sent_news_hashes, GenerateHash(title))
    /\ stats' = <<[stats[1] EXCEPT !.duplicated = @ + 1]>>
    /\ left' = left - 1
    /\ blasts' = blasts + 1
    /\ UNCHANGED <<news, sent_news_hashes, ttl, ret, last, spc>>
    /\ UNCHANGED <<xvars, wvars, rvars, bvars>>

\* lines 173-175: the next result passed the checks of the batch and is
\* handed to blast_news; an exception of blast_news leaves blast_news_batch
BatchSend ==
    /\ spc = "batch"
    /\ left > 0
    /\ \E title \in Titles, grade \in Grades, fail \in Failures :
          /\ ~GradeFiltered(grade)
          /\ ~IsDuplicate(sent_news_hashes, GenerateHash(title))
          /\ LET r == BlastNews(news, sent_news_hashes, ttl, title, grade, fail)
             IN  /\ news' = r.news
                 /\ sent_news_hashes' = r.hashes
                 /\ ttl' = r.ttl
                 /\ ret' = r.ret
                 /\ last' = <<[title |-> title, grade |-> grade, before |-> news]>>
                 /\ IF r.ret = "raised"
                    THEN stats' = <<>> /\ left' = 0 /\ spc' = "idle"
                    ELSE /\ stats' = <<[stats[1] EXCEPT
                                          !.sent = IF r.ret = "True" THEN @ + 1 ELSE @]>>
                         /\ left' = left - 1
                         /\ spc' = spc
    /\ blasts' = blasts + 1
    /\ UNCHANGED <<xvars, wvars, rvars, bvars>>

\* lines 177-178: the loop is over; stats is returned
BatchEnd ==
    /\ spc = "batch"
    /\ left = 0
    /\ spc' = "idle"
    /\ UNCHANGED <<news, sent_news_hashes, ttl, ret, last, left, stats, blasts>>
    /\ UNCHANGED <<xvars, wvars, rvars, bvars>>

NextSender ==
    \/ SenderBlastNews
    \/ BatchStart
    \/ BatchSkipEmpty
    \/ BatchFiltered
    \/ BatchCheckRaises
    \/ BatchDuplicate
    \/ BatchSend
    \/ BatchEnd

SpecSender == InitSender /\ [][NextSender]_vars

\* ------------------------------------------------------------ properties of extract

\* the 0-based positions at which name occurs in the text
Occurrences(name) == {p \in 0..(Len(text) - Len(name)) : OccursAt(text, name, p)}

SpansDisjoint(p1, e1, p2, e2) == e1 <= p2 \/ e2 <= p1

InResult(s) == \E n \in 1..Len(unique_stocks) : unique_stocks[n] = s

\* every occurrence of name a lies inside an occurrence of name b
EveryOccurrenceInside(a, b) ==
    /\ Occurrences(a) # {}
    /\ \A p \in Occurrences(a) :
          \E q \in Occurrences(b) : q <= p /\ p + Len(a) <= q + Len(b)

\* C1: the occurrences accepted during one extract_stock_names call have
\* pairwise disjoint character spans, and matched_positions is exactly the
\* set of positions they cover.
C1_DisjointSpans ==
    /\ \A i, j \in 1..Len(accepted) :
          i # j => SpansDisjoint(accepted[i].pos, accepted[i].end,
                                 accepted[j].pos, accepted[j].end)
    /\ matched_positions =
          UNION {accepted[i].pos..(accepted[i].end - 1) : i \in 1..Len(accepted)}

\* C1 witness: a finished call that accepted occurrences of two different
\* entries and a repeated occurrence of one entry, and passed over an
\* occurrence that met a covered position.
C1_Witness ==
    /\ xpc = "done"
    /\ \E i, j \in 1..Len(accepted) : accepted[i].entry # accepted[j].entry
    /\ \E i, j \in 1..Len(accepted) : i # j /\ accepted[i].entry = accepted[j].entry
    /\ \E n \in 1..Len(sorted_stocks) :
          \E p \in Occurrences(sorted_stocks[n].name) :
             \A i \in 1..Len(accepted) :
                ~(accepted[i].entry = n /\ accepted[i].pos = p)

\* C2 as claimed: no accepted occurrence of a shorter name overlaps an accepted
\* occurrence of a longer name, and whenever every occurrence of entry A's
\* name lies inside an occurrence of a strictly longer entry B's name, B is
\* returned and A is not.
C2_LongestMatchAsClaimed ==
    /\ \A m, n \in 1..Len(accepted) :
          Len(sorted_stocks[accepted[m].entry].name)
             < Len(sorted_stocks[accepted[n].entry].name)
          => SpansDisjoint(accepted[m].pos, accepted[m].end,
                           accepted[n].pos, accepted[n].end)
    /\ xpc = "done" =>
          \A a, b \in 1..Len(stock_list) :
             (/\ Len(stock_list[b].name) > Len(stock_list[a].name)
              /\ EveryOccurrenceInside(stock_list[a].name, stock_list[b].name))
             => (InResult(stock_list[b]) /\ ~InResult(stock_list[a]))

\* no occurrence of entry b's name meets an occurrence of another entry whose
\* name is at least as long, nor another occurrence of b's own name
Unblocked(b) ==
    LET nb == stock_list[b].name
    IN  \A q \in Occurrences(nb) :
           /\ \A q2 \in Occurrences(nb) :
                 q2 # q => SpansDisjoint(q, q + Len(nb), q2, q2 + Len(nb))
           /\ \A c \in 1..Len(stock_list) :
                 (c # b /\ Len(stock_list[c].name) >= Len(nb)) =>
                    \A r \in Occurrences(stock_list[c].name) :
                       SpansDisjoint(q, q + Len(nb), r, r + Len(stock_list[c].name))

\* C2 amended: no accepted occurrence of a shorter name overlaps an accepted
\* occurrence of a longer name; and if every occurrence of A's name lies
\* inside an occurrence of a strictly longer name B, and no occurrence of B
\* meets an occurrence of another entry at least as long as B or another
\* occurrence of B, then B is returned and A is not.
C2_LongestMatchFirst ==
    /\ \A i, j \in 1..Len(accepted) :
          Len(sorted_stocks[accepted[i].entry].name)
             < Len(sorted_stocks[accepted[j].entry].name)
          => SpansDisjoint(accepted[i].pos, accepted[i].end,
                           accepted[j].pos, accepted[j].end)
    /\ xpc = "done" =>
          \A a, b \in 1..Len(stock_list) :
             (/\ Len(stock_list[b].name) > Len(stock_list[a].name)
              /\ EveryOccurrenceInside(stock_list[a].name, stock_list[b].name)
              /\ Unblocked(b))
             => (InResult(stock_list[b]) /\ ~InResult(stock_list[a]))

\* C2 witness: a finished call on a snapshot that lists the shorter name
\* before the longer one that contains it; the longer one is returned.
C2_Witness ==
    /\ xpc = "done"
    /\ \E a, b \in 1..Len(stock_list) :
          /\ a < b
          /\ Len(stock_list[b].name) > Len(stock_list[a].name)
          /\ EveryOccurrenceInside(stock_list[a].name, stock_list[b].name)
          /\ Unblocked(b)
          /\ InResult(stock_list[b])
          /\ Len(unique_stocks) = 1

\* ------------------------------------------------------------ properties of the calendar and the window

\* the dates of the 10-day lookback of the current get_last_trading_day call
LookbackDates == (Day(today) - (Lookback - 1))..Day(today)

\* the most recent Monday-Friday date <= d
NearestWeekday(d) == Max({x \in (d - 6)..d : Weekday(x) < 5})

\* the 16:00 close of date d
CloseOf(d) == d * MinutesPerDay + 16 * 60

\* C3: for every reference instant and every provider behaviour the returned
\* window has start <= end.
C3_StartNotAfterEnd ==
    wpc = "done" => start_datetime <= end_datetime

\* C3 witness: a window returned after the first resolution had given
\* start > end, with a provider that raised on some probe.
C3_Witness ==
    /\ wpc = "done"
    /\ call = 2
    /\ errRun
    /\ start_datetime < end_datetime

\* C4: the date returned by get_last_trading_day(D) is <= D, on the probe path
\* and on the fallback path.
C4_ResultNotAfterReference ==
    wpc = "returned" => result <= Day(today)

\* C4 witness: a call that returned on the fallback path a date before D.
C4_Witness ==
    /\ wpc = "returned"
    /\ path = "fallback"
    /\ result < Day(today)

\* C5: when every probe of a call answered without error and the lookback
\* [D-9, D] holds a date with session data, the call returns the most recent
\* such date.
C5_MostRecentSession ==
    (wpc = "returned" /\ ~anyErr /\ LookbackDates \cap sessions # {})
    => /\ result \in sessions
       /\ result \in LookbackDates
       /\ \A d \in LookbackDates : (d \in sessions) => d <= result

\* C5 witness: a call without provider errors that returned a session date
\* after probing a later date that had none.
C5_Witness ==
    /\ wpc = "returned"
    /\ ~anyErr
    /\ path = "probe"
    /\ Len(probed) >= 3
    /\ result < Day(today)

\* C6 as claimed: the fallback date is returned only by a call all of whose
\* probes failed with a provider error.
C6_FallbackOnlyOnErrors ==
    (wpc = "returned" /\ path = "fallback") => ~anyOk

\* C7: if the provider raised on every probe of a call, the call returns the
\* nearest Monday-Friday date <= D and a warning-level record was logged.
C7_DegradedFallback ==
    (wpc = "returned" /\ ~anyOk)
    => /\ result = NearestWeekday(Day(today))
       /\ call \in warnings

\* C7 witness: a call whose probes all raised, for a Saturday or Sunday D.
C7_Witness ==
    /\ wpc = "returned"
    /\ ~anyOk
    /\ anyErr
    /\ Weekday(Day(today)) >= 5
    /\ call \in warnings

\* C8: get_last_trading_day never raises and every call returns.
C8_NeverRaises ==
    /\ [](~raised)
    /\ [](wpc = "probe" => <>(wpc = "returned"))

\* C8 witness: a call returned although every one of its probes raised.
C8_Witness ==
    /\ wpc = "returned"
    /\ anyErr
    /\ ~anyOk
    /\ Len(probed) >= 6
    /\ ~raised

\* C9 as claimed: with a provider that answers without error (and no
\* fallback), start is 16:00 of the most recent session date whose 16:00 is
\* not after the reference instant.
C9_AnchoredToLastClose ==
    (wpc = "done" /\ ~errRun /\ warnings = {})
    => LET closed == {d \in sessions : CloseOf(d) <= end_datetime}
       IN  closed # {} /\ start_datetime = CloseOf(Max(closed))

\* C10 as claimed: the second resolution's anchor is the day before the first
\* resolution's anchor, and start is 16:00 of the re-resolved day.
C10_AnchorOneDayBack ==
    /\ call = 2 => Day(safe_search_date) = Day(search_date) - 1
    /\ (wpc = "done" /\ call = 2) => start_datetime = CloseOf(result)

\* C11: the first resolution is anchored at the reference date minus one day
\* when the reference time of day is before 09:00 and at the reference date
\* otherwise (09:00 itself is not before); for Monday 08:20 the anchor is
\* Sunday, Saturday and Sunday are skipped without a probe, and with an
\* error-free provider that has Friday's session the window is
\* Friday 16:00 .. Monday 08:20.
C11_AnchorBeforeOpen ==
    /\ call >= 1 =>
          /\ Day(search_date) = IF TimeOfDay(base_date) < 9 * 60
                                THEN Day(base_date) - 1
                                ELSE Day(base_date)
          /\ TimeOfDay(search_date) = TimeOfDay(base_date)
    /\ (/\ wpc = "done"
        /\ Weekday(Day(base_date)) = 0
        /\ TimeOfDay(base_date) = 8 * 60 + 20
        /\ (Day(base_date) - 3) \in sessions
        /\ ~errRun)
       => /\ Day(search_date) = Day(base_date) - 1
          /\ probed = <<Day(base_date) - 3>>
          /\ start_datetime = CloseOf(Day(base_date) - 3)
          /\ end_datetime = Day(base_date) * MinutesPerDay + 8 * 60 + 20

\* C11 witness: Monday 08:20 with Friday's session resolved to Friday 16:00.
C11_Witness ==
    /\ wpc = "done"
    /\ Weekday(Day(base_date)) = 0
    /\ TimeOfDay(base_date) = 8 * 60 + 20
    /\ (Day(base_date) - 3) \in sessions
    /\ ~errRun
    /\ start_datetime = CloseOf(Day(base_date) - 3)

\* C12: the returned end is the reference instant, on every path, and no step
\* after the entry changes it.
C12_EndIsReference ==
    /\ [](wpc \in {"probe", "fallback", "returned", "done"} => end_datetime = base_date)
    /\ [][base_date' = base_date]_vars

\* C12 witness: a window returned through the second resolution.
C12_Witness ==
    /\ wpc = "done"
    /\ call = 2
    /\ end_datetime = base_date
    /\ start_datetime < end_datetime

\* ------------------------------------------------------------ more properties of extract

\* the position in accepted of the first accepted occurrence of the entry
\* with ticker t
FirstAcceptedAt(t) ==
    Min({n \in 1..Len(accepted) : sorted_stocks[accepted[n].entry].ticker = t})

\* C17: extract_stock_names is pure and idempotent: a second call with the
\* same text and snapshot returns the same ordered list as the first, and no
\* step of a call changes the text or the content or order of the snapshot.
C17_PureIdempotent ==
    /\ []((xpc = "done" /\ xcall = 2) => unique_stocks = first_result)
    /\ [][stock_list' = stock_list /\ text' = text]_vars

\* C17 witness: a second call finished that passed over an occurrence and
\* returned two securities.
C17_Witness ==
    /\ xpc = "done"
    /\ xcall = 2
    /\ Len(unique_stocks) = 2
    /\ Len(accepted) >= 3
    /\ \E n \in 1..Len(sorted_stocks) :
          \E p \in Occurrences(sorted_stocks[n].name) :
             \A m \in 1..Len(accepted) :
                ~(accepted[m].entry = n /\ accepted[m].pos = p)

C19_UniqueInAcceptanceOrder ==
    xpc = "done" =>
       /\ \A n, m \in 1..Len(unique_stocks) :
             n # m => unique_stocks[n].ticker # unique_stocks[m].ticker
       /\ {unique_stocks[n] : n \in 1..Len(unique_stocks)}
             = {sorted_stocks[accepted[n].entry] : n \in 1..Len(accepted)}
       /\ \A n, m \in 1..Len(unique_stocks) :
             n < m => FirstAcceptedAt(unique_stocks[n].ticker)
                         < FirstAcceptedAt(unique_stocks[m].ticker)

\* C19 witness: two securities returned, the first of them accepted at two
\* places of the text.
C19_Witness ==
    /\ xpc = "done"
    /\ Len(unique_stocks) = 2
    /\ \E n, m \in 1..Len(accepted) :
          /\ n < m
          /\ accepted[n].entry = accepted[m].entry
          /\ sorted_stocks[accepted[n].entry] = unique_stocks[1]

\* C20: the returned list is ordered longest name first.
C20_LongestNameFirst ==
    xpc = "done" =>
       \A n, m \in 1..Len(unique_stocks) :
          n < m => Len(unique_stocks[n].name) >= Len(unique_stocks[m].name)

\* C20 witness: the snapshot lists the shorter name first and both names are
\* returned, the longer one first.
C20_Witness ==
    /\ xpc = "done"
    /\ Len(stock_list) = 2
    /\ Len(stock_list[1].name) < Len(stock_list[2].name)
    /\ unique_stocks = <<stock_list[2], stock_list[1]>>

\* ------------------------------------------------------------ properties of the registry

\* the load of caller c has returned (its result is about to be stored)
LoadReturned(c) == rpc[c] = "store"

Failed(outcome) == outcome \in {"raised", "empty"}

\* C13 as claimed: the primary provider is tried first and the secondary only
\* after the primary raised or produced no entry; and when both providers
\* failed, the snapshot returned has no entry at all.
C13_FallbackThenEmpty ==
    \A c \in Callers :
       /\ Len(tried[c]) >= 1 => tried[c][1][1] = "primary"
       /\ Len(tried[c]) >= 2 =>
             /\ tried[c][2][1] = "secondary"
             /\ Failed(tried[c][1][2])
       /\ (/\ LoadReturned(c)
           /\ Len(tried[c]) = 2
           /\ Failed(tried[c][1][2])
           /\ Failed(tried[c][2][2]))
          => all_stocks[c] = <<>>

\* C14 as claimed: every snapshot returned by get_all_listed_stocks has
\* pairwise distinct tickers (each provider lists a ticker at most once).
C14_DistinctTickers ==
    \A c \in Callers :
       LoadReturned(c) =>
          \A m, n \in 1..Len(all_stocks[c]) :
             m # n => all_stocks[c][m].ticker # all_stocks[c][n].ticker

\* C15 as claimed: with callers running concurrently, one load executes and
\* every caller receives the result of that load.
C15_SingleLoad ==
    /\ loads <= 1
    /\ \A c, d \in Callers : (got[c] # <<>> /\ got[d] # <<>>) => got[c] = got[d]

\* C16: once the cache holds a non-empty snapshot no step changes the cache
\* or starts a load, and every call that has returned returned that snapshot.
C16_Memoized ==
    /\ [][(stock_list_cache # <<>> /\ stock_list_cache[1] # <<>>)
            => (stock_list_cache' = stock_list_cache /\ loads' = loads)]_vars
    /\ [](\A c \in Callers :
            (got[c] # <<>> /\ stock_list_cache # <<>> /\ stock_list_cache[1] # <<>>)
            => got[c] = stock_list_cache)

\* C16 witness: after a successful load both callers have been served the
\* cached snapshot, one of them twice, with one load in all.
C16_Witness ==
    /\ stock_list_cache # <<>>
    /\ stock_list_cache[1] # <<>>
    /\ loads = 1
    /\ \A c \in Callers : got[c] = stock_list_cache /\ rpc[c] = "idle"
    /\ \E c \in Callers : ncalls[c] >= 2

\* ------------------------------------------------------------ further properties of extract

\* occurrence p of the name of sorted entry n was accepted
AcceptedAt(n, p) ==
    \E m \in 1..Len(accepted) : accepted[m].entry = n /\ accepted[m].pos = p

\* the span [p, e) meets a span accepted for one of the sorted entries in ns
MeetsAccepted(p, e, ns) ==
    \E m \in 1..Len(accepted) :
       /\ accepted[m].entry \in ns
       /\ ~SpansDisjoint(p, e, accepted[m].pos, accepted[m].end)

\* C21: when two entries with different tickers have the same name, the one
\* that comes later in sorted order has no occurrence accepted and is not in
\* the returned list.
C21_SameNameFirstOnly ==
    \A a, b \in 1..Len(sorted_stocks) :
       (/\ a < b
        /\ sorted_stocks[a].name = sorted_stocks[b].name
        /\ sorted_stocks[a].ticker # sorted_stocks[b].ticker)
       => /\ \A m \in 1..Len(accepted) : accepted[m].entry # b
          /\ xpc = "done" => ~InResult(sorted_stocks[b])

\* C21 witness: a finished call on a snapshot of two entries with one name
\* that occurs in the text; the first entry is returned alone.
C21_Witness ==
    /\ xpc = "done"
    /\ Len(stock_list) = 2
    /\ stock_list[1].name = stock_list[2].name
    /\ Occurrences(stock_list[1].name) # {}
    /\ unique_stocks = <<stock_list[1]>>

\* C27: after the call every occurrence in the text of every snapshot name
\* was accepted or meets an accepted span; and a security that is not
\* returned has every occurrence of its name meeting a span accepted for an
\* entry sorted before it.
C27_Maximal ==
    xpc = "done" =>
       \A n \in 1..Len(sorted_stocks) :
          LET nm == sorted_stocks[n].name
          IN  /\ \A p \in Occurrences(nm) :
                    AcceptedAt(n, p) \/ MeetsAccepted(p, p + Len(nm), 1..Len(sorted_stocks))
              /\ ~InResult(sorted_stocks[n]) =>
                    \A p \in Occurrences(nm) : MeetsAccepted(p, p + Len(nm), 1..(n - 1))

\* C27 witness: a finished call in which an entry whose name occurs in the
\* text is not returned, and another entry had an occurrence passed over and
\* a later one accepted.
C27_Witness ==
    /\ xpc = "done"
    /\ \E n \in 1..Len(sorted_stocks) :
          /\ Occurrences(sorted_stocks[n].name) # {}
          /\ ~InResult(sorted_stocks[n])
    /\ \E n \in 1..Len(sorted_stocks) :
          \E p, q \in Occurrences(sorted_stocks[n].name) :
             p < q /\ ~AcceptedAt(n, p) /\ AcceptedAt(n, q)

\* C30: every security in matched_stocks and in the returned list is an
\* entry of the snapshot whose name occurs in the text.
C30_Sound ==
    LET Sound(s) == /\ \E n \in 1..Len(stock_list) : stock_list[n] = s
                    /\ Occurrences(s.name) # {}
    IN  /\ \A n \in 1..Len(matched_stocks) : Sound(matched_stocks[n])
        /\ \A n \in 1..Len(unique_stocks) : Sound(unique_stocks[n])

\* C30 witness: a finished call that returned one of two entries, the name of
\* the other not being in the text.
C30_Witness ==
    /\ xpc = "done"
    /\ Len(stock_list) = 2
    /\ Len(unique_stocks) = 1
    /\ \E n \in 1..2 : Occurrences(stock_list[n].name) = {}

\* ------------------------------------------------------------ further properties of the calendar and the window

\* C22: every date for which the session provider is queried is a
\* Monday-Friday date.
C22_NoWeekendProbe ==
    \A n \in 1..Len(probed) : Weekday(probed[n]) \in 0..4

\* C22 witness: a call for a Sunday D that went past Saturday and Sunday and
\* probed Friday and Thursday.
C22_Witness ==
    /\ wpc = "returned"
    /\ Weekday(Day(today)) = 6
    /\ Len(probed) >= 2
    /\ probed[1] = Day(today) - 2

\* C23: a get_last_trading_day(D) call issues at most 10 probes, each for a
\* date of [D-9, D], in strictly descending date order; the probe that
\* returned session data is the last of its call; and a
\* get_data_collection_timerange call makes at most two resolutions.
C23_BoundedProbes ==
    /\ [](/\ Len(probed) <= 10
          /\ \A n \in 1..Len(probed) :
                probed[n] \in (Day(today) - 9)..Day(today)
          /\ \A n, m \in 1..Len(probed) : n < m => probed[n] > probed[m]
          /\ (wpc = "returned" /\ path = "probe") => result = probed[Len(probed)]
          /\ wpc = "probe" => path = "none"
          /\ call <= 2)
    /\ [][(path = "probe" /\ call' = call) => probed' = probed]_vars

\* C23 witness: the second resolution of a call returned a session date at
\* its sixth probe.
C23_Witness ==
    /\ wpc = "returned"
    /\ call = 2
    /\ path = "probe"
    /\ Len(probed) >= 6

\* C29: the date get_last_trading_day returns is a Monday-Friday date on both
\* paths, and the returned start is 16:00 of a Monday-Friday date.
C29_WeekdayClose ==
    /\ wpc = "returned" => Weekday(result) \in 0..4
    /\ wpc = "done" =>
          /\ TimeOfDay(start_datetime) = 16 * 60
          /\ Weekday(Day(start_datetime)) \in 0..4

\* C29 witness: a window returned for a reference instant of 08:20 on a
\* Sunday, the date having come from the fallback.
C29_Witness ==
    /\ wpc = "done"
    /\ path = "fallback"
    /\ Weekday(Day(base_date)) = 6
    /\ TimeOfDay(base_date) = 8 * 60 + 20
    /\ Weekday(Day(start_datetime)) = 4

\* ------------------------------------------------------------ further properties of the registry

\* the cache holds the empty list
CachedEmpty == stock_list_cache = << <<>> >>

\* C28: once the empty list of a failed load is in the cache, no step changes
\* the cache or starts a load, whatever the providers would answer, and every
\* call that has returned returned the empty list.
C28_FailureCached ==
    /\ [][CachedEmpty => (stock_list_cache' = stock_list_cache /\ loads' = loads)]_vars
    /\ [](CachedEmpty => \A c \in Callers : got[c] # <<>> => got[c] = << <<>> >>)
    /\ [](CachedEmpty => \A c \in Callers : rpc[c] \in {"idle", "return"})

\* C28 witness: the first call found both providers failing and cached the
\* empty list; both callers have since been served it, one of them twice, with
\* one load in all.
C28_Witness ==
    /\ CachedEmpty
    /\ loads = 1
    /\ \E c \in Callers :
          /\ Len(tried[c]) = 2
          /\ Failed(tried[c][1][2])
          /\ Failed(tried[c][2][2])
    /\ \A c \in Callers : got[c] = << <<>> >> /\ rpc[c] = "idle"
    /\ \E c \in Callers : ncalls[c] >= 2

\* ------------------------------------------------------------ properties of run_backtest

\* s has the form YYYYMMDD: eight digits that name a date of the calendar
WellFormed(s) ==
    /\ Len(s) = 8
    /\ \A p \in 1..8 : s[p] \in Digits
    /\ IntOf(SubSeq(s, 1, 4)) >= 1
    /\ IntOf(SubSeq(s, 5, 6)) \in 1..12
    /\ IntOf(SubSeq(s, 7, 8)) \in 1..DaysInMonth(IntOf(SubSeq(s, 1, 4)), IntOf(SubSeq(s, 5, 6)))

\* C24 as claimed: a date string that is not of the form YYYYMMDD is rejected
\* at once: the format error is logged and the run ends with no simulated
\* instant, no collection window, no collection, no analysis and no result
\* file.
C24_MalformedRejected ==
    (~WellFormed(target_date_str) /\ bpc \notin {"off", "entry"})
    => /\ bpc = "done"
       /\ errors = <<"date_format">>
       /\ simulated_now = <<>>
       /\ windows = 0
       /\ news_list = <<>>
       /\ disclosure_list = <<>>
       /\ analyzed_results = <<>>
       /\ output_file = <<>>

\* ------------------------------------------------------------ properties of TheBeatSender

\* C25 as claimed: every item on the list has grade S or A, and no title is
\* on the list more than once, whatever Redis commands failed on the way.
C25_NoTitleTwice ==
    /\ \A n \in 1..Len(news) : news[n].grade \in {"S", "A"}
    /\ \A m, n \in 1..Len(news) : m # n => news[m].title # news[n].title

\* C26 as claimed: blast_news returns True exactly when it put its item at
\* the head of the list, and when it returns False the list is as it was
\* before the call.
C26_TrueIffAppended ==
    (last # <<>> /\ ret \in {"True", "False"})
    => /\ ret = "True" <=>
             news = <<NewsData(last[1].title, last[1].grade)>> \o last[1].before
       /\ ret = "False" => news = last[1].before

====
